---- MODULE Spec2Model ----
(***************************************************************************)
(* Docstring extension for class hierarchies (jhsiao.decorate.extends).    *)
(*                                                                         *)
(* Documentation strings are sequences of one-character strings.  The      *)
(* value None is the one-element sequence <<"None">>, which is no string   *)
(* of characters.  Classes form the diamond  A; B(A); C(A); D(B, C).       *)
(***************************************************************************)
EXTENDS Integers, Sequences, FiniteSets, TLC

VARIABLES
    major,      \* sys.version_info.major of the interpreter
    noneMode,   \* what unindent does when handed None: "raise" or "empty"
    clsdoc,     \* clsdoc[c]: __doc__ of class c
    member,     \* member[c][n]: what the __dict__ of class c holds under n
    parents,    \* the arguments of extends(...)
    thing,      \* the item decorated by extends(...)
    op,         \* the last operation carried out and its target
    res,        \* what the last operation returned
    err         \* the exception the last operation raised, or "none"

vars == <<major, noneMode, clsdoc, member, parents, thing, op, res, err>>

----------------------------------------------------------------------------
(* Bounds of the model *)

\* longest documentation string drawn over the letters
MaxLen == 1

\* most parents handed to extends(...)
MaxParents == 2

----------------------------------------------------------------------------
(* Strings *)

None == <<"None">>
NL == "\n"
SP == " "
Letters == {"f", "b"}
Sep == <<NL, NL>>

Strings(n) == UNION {[1..k -> Letters] : k \in 0..n}

\* documentation strings with white space and line breaks in them
Fixtures ==
    { <<"f", SP, "b">>,
      <<SP, "f">>,
      <<"f", NL, SP, "b">> }

Docs == Strings(MaxLen) \cup Fixtures

\* x in y, for Python strings
IsSubstr(x, y) ==
    \E i \in 0..(Len(y) - Len(x)) : SubSeq(y, i + 1, i + Len(x)) = x

RECURSIVE Join(_, _)
Join(blocks, sep) ==
    IF blocks = <<>> THEN <<>>
    ELSE IF Len(blocks) = 1 THEN blocks[1]
    ELSE blocks[1] \o sep \o Join(Tail(blocks), sep)

Reverse(s) == [i \in 1..Len(s) |-> s[Len(s) + 1 - i]]

Min(S) == CHOOSE x \in S : \A y \in S : x <= y

----------------------------------------------------------------------------
(* unindent: the normalization helper of jhsiao.utils.strutils.  It strips *)
(* the first line, removes the common leading white space of the non-blank *)
(* lines after the first, and drops blank lines at both ends.              *)

RECURSIVE SplitLines(_)
SplitLines(s) ==
    IF \A i \in 1..Len(s) : s[i] # NL THEN <<s>>
    ELSE LET i == CHOOSE k \in 1..Len(s) :
                      s[k] = NL /\ \A j \in 1..(k - 1) : s[j] # NL
         IN  <<SubSeq(s, 1, i - 1)>> \o SplitLines(SubSeq(s, i + 1, Len(s)))

Indent(l) ==
    CHOOSE n \in 0..Len(l) :
        /\ \A j \in 1..n : l[j] = SP
        /\ (n = Len(l) \/ l[n + 1] # SP)

Trailing(l) ==
    CHOOSE n \in 0..Len(l) :
        /\ \A j \in (Len(l) - n + 1)..Len(l) : l[j] = SP
        /\ (n = Len(l) \/ l[Len(l) - n] # SP)

IsBlank(l) == Indent(l) = Len(l)
LStrip(l) == SubSeq(l, Indent(l) + 1, Len(l))
RStrip(l) == SubSeq(l, 1, Len(l) - Trailing(l))

RECURSIVE DropLeadingBlank(_)
DropLeadingBlank(ls) ==
    IF ls # <<>> /\ Head(ls) = <<>> THEN DropLeadingBlank(Tail(ls)) ELSE ls

DropBlankEnds(ls) == Reverse(DropLeadingBlank(Reverse(DropLeadingBlank(ls))))

unindent(doc) ==
    LET lines == SplitLines(doc)
        rest == Tail(lines)
        ind == {Indent(rest[i]) : i \in {j \in 1..Len(rest) : ~IsBlank(rest[j])}}
        margin == IF ind = {} THEN 0 ELSE Min(ind)
        trimmed == <<RStrip(LStrip(Head(lines)))>> \o
                   [i \in 1..Len(rest) |->
                       RStrip(SubSeq(rest[i], margin + 1, Len(rest[i])))]
    IN  Join(DropBlankEnds(trimmed), <<NL>>)

----------------------------------------------------------------------------
(* The host's classes and attribute lookup *)

Class == {"A", "B", "C", "D"}

\* the dir() of a class: its member names, sorted
Names == <<"k", "m">>
NameSet == {Names[i] : i \in 1..Len(Names)}

\* cls.mro() without object
Mro(c) ==
    CASE c = "A" -> <<"A">>
      [] c = "B" -> <<"B", "A">>
      [] c = "C" -> <<"C", "A">>
      [] c = "D" -> <<"D", "B", "C", "A">>

\* the kinds of object a class body binds to a name
\*   function:    a def with or without a docstring
\*   classmethod: a classmethod object around a function
\*   data:        a plain value; its __doc__ is that of its type
\*   opaque:      an object whose attribute access raises AttributeError
Kinds == {"function", "classmethod", "data", "opaque"}

NoMember == [kind |-> "absent", doc |-> None, marked |-> FALSE]
Member(kind, doc) == [kind |-> kind, doc |-> doc, marked |-> FALSE]

\* objects with a __get__: functions and classmethod objects
HasGet(kind) == kind \in {"function", "classmethod"}

\* the first class of c's mro whose __dict__ holds name, or "none"
Owner(mem, c, name) ==
    LET mro == Mro(c)
        hits == {i \in 1..Len(mro) : mem[mro[i]][name].kind # "absent"}
    IN  IF hits = {} THEN "none" ELSE mro[Min(hits)]

\* class Extend defines __get__, so an Extend in a class __dict__ is a
\* descriptor: reading it through the class hands back
\* self.thing.__get__(None, cls), never the Extend itself
ExtendIsDescriptor == TRUE

\* getattr(c, name): "missing" without such an attribute, "error" when the
\* attribute is an Extend around an object without __get__ (Extend.__get__
\* raises AttributeError), else "ok" with the object found: the one class
\* owner holds under name, and whether what getattr hands back is an Extend
GetAttr(mem, c, name) ==
    LET o == Owner(mem, c, name) IN
    IF o = "none"
    THEN [status |-> "missing", owner |-> "none", isExtend |-> FALSE]
    ELSE IF mem[o][name].marked /\ ExtendIsDescriptor /\ ~HasGet(mem[o][name].kind)
    THEN [status |-> "error", owner |-> o, isExtend |-> FALSE]
    ELSE [status |-> "ok", owner |-> o,
          isExtend |-> mem[o][name].marked /\ ~ExtendIsDescriptor]

\* getattr(obj, '__doc__', None) of the object class o holds under name
DocOf(mem, o, name) ==
    IF mem[o][name].kind = "opaque" THEN None ELSE mem[o][name].doc

----------------------------------------------------------------------------
(* attr_docstr(mro, attr) *)

\* keep this block?
AttrKeepSwapped(doc, last) ==
    doc # <<>> /\ (last = None \/ ~IsSubstr(last, doc))

AttrKeep(doc, last) ==
    doc # <<>> /\ (last = None \/ ~IsSubstr(doc, last))

\* the loop over the mro, from its i-th class on
RECURSIVE AttrLoop(_, _, _, _, _, _)
AttrLoop(mem, mro, attr, i, docs, last) ==
    IF i > Len(mro) THEN docs
    ELSE LET baseitem == GetAttr(mem, mro[i], attr) IN
         IF baseitem.status # "ok"
         THEN AttrLoop(mem, mro, attr, i + 1, docs, last)
         ELSE LET doc0 == DocOf(mem, baseitem.owner, attr) IN
              IF doc0 = None
              THEN AttrLoop(mem, mro, attr, i + 1, docs, last)
              ELSE LET doc == unindent(doc0) IN
                   IF AttrKeep(doc, last)
                   THEN AttrLoop(mem, mro, attr, i + 1, Append(docs, doc), doc)
                   ELSE AttrLoop(mem, mro, attr, i + 1, docs, last)

AttrResultForward(docs) ==
    IF docs # <<>> THEN Join(docs, Sep) ELSE None

AttrResult(docs) ==
    IF docs # <<>> THEN Join(Reverse(docs), Sep) ELSE None

attr_docstr(mem, mro, attr) ==
    AttrResult(AttrLoop(mem, mro, attr, 1, <<>>, None))

----------------------------------------------------------------------------
(* cls_docstr(mro), over the __doc__ values of the mro's items *)

ClsKeepSwapped(doc, docs) ==
    doc # None /\ doc # <<>> /\ (docs = <<>> \/ ~IsSubstr(docs[Len(docs)], doc))

ClsKeep(doc, docs) ==
    doc # None /\ doc # <<>> /\ (docs = <<>> \/ ~IsSubstr(doc, docs[Len(docs)]))

RECURSIVE ClsLoop(_, _, _)
ClsLoop(raw, i, docs) ==
    IF i > Len(raw) THEN docs
    ELSE LET doc == IF raw[i] # None /\ raw[i] # <<>>
                    THEN unindent(raw[i]) ELSE raw[i]
         IN  IF ClsKeep(doc, docs)
             THEN ClsLoop(raw, i + 1, Append(docs, doc))
             ELSE ClsLoop(raw, i + 1, docs)

ClsDocs(cd, mro) == [i \in 1..Len(mro) |-> cd[mro[i]]]

cls_docstr_of(raw) == Join(Reverse(ClsLoop(raw, 1, <<>>)), Sep)

cls_docstr(cd, mro) == cls_docstr_of(ClsDocs(cd, mro))

----------------------------------------------------------------------------
(* extends(...) and extends_(thing, parents) *)

\* a parent or a decorated item: a type of the hierarchy, or a function
\* outside of it with its own __doc__
TypeSource(c) == [isType |-> TRUE, cls |-> c, doc |-> None]
FuncSource(d) == [isType |-> FALSE, cls |-> "-", doc |-> d]

\* item.__name__ of the decorated function
ItemName == "m"

\* cand.__doc__ of one candidate of the chain: a type stands for its member
\* named like the decorated item, when getattr finds one
CandDoc(mem, cd, cand) ==
    IF cand.isType
    THEN LET g == GetAttr(mem, cand.cls, ItemName) IN
         IF g.status = "ok"
         THEN IF mem[g.owner][ItemName].kind = "opaque"
              THEN [raises |-> TRUE, doc |-> None]
              ELSE [raises |-> FALSE, doc |-> mem[g.owner][ItemName].doc]
         ELSE [raises |-> FALSE, doc |-> cd[cand.cls]]
    ELSE [raises |-> FALSE, doc |-> cand.doc]

ChainKeep(doc, docs) ==
    docs = <<>> \/ ~IsSubstr(docs[Len(docs)], doc)

\* the loop over chain(parents, (thing,)), from the i-th candidate on
RECURSIVE ChainLoop(_, _, _, _, _, _)
ChainLoop(mem, cd, mode, cands, i, docs) ==
    IF i > Len(cands) THEN [err |-> "none", docs |-> docs]
    ELSE LET c == CandDoc(mem, cd, cands[i]) IN
         IF c.raises THEN [err |-> "AttributeError", docs |-> docs]
         ELSE IF c.doc = None /\ mode = "raise"
         THEN [err |-> "AttributeError", docs |-> docs]
         ELSE LET doc == IF c.doc = None THEN <<>> ELSE unindent(c.doc) IN
              IF ChainKeep(doc, docs)
              THEN ChainLoop(mem, cd, mode, cands, i + 1, Append(docs, doc))
              ELSE ChainLoop(mem, cd, mode, cands, i + 1, docs)

\* the __doc__ of an item handed to cls_docstr
SourceDoc(cd, src) == IF src.isType THEN cd[src.cls] ELSE src.doc

----------------------------------------------------------------------------
(* extend(item) and extend_all(cls) *)

\* hasattr(getattr(item, '__func__', item), '__doc__')
HasDocAttr(kind) == kind # "opaque"

\* the loop of extend(item) over dir(item), from the i-th name on
RECURSIVE ExtendLoop(_, _, _, _)
ExtendLoop(c, mro, i, mem) ==
    IF i > Len(Names) THEN [err |-> "none", mem |-> mem]
    ELSE LET k == Names[i]
             v == GetAttr(mem, c, k)
         IN  IF v.status = "missing" THEN ExtendLoop(c, mro, i + 1, mem)
             ELSE IF v.status = "error"
             THEN [err |-> "AttributeError", mem |-> mem]
             ELSE IF ~v.isExtend THEN ExtendLoop(c, mro, i + 1, mem)
             ELSE LET unwrapped ==
                          [mem EXCEPT ![c][k] =
                              [mem[v.owner][k] EXCEPT !.marked = FALSE]]
                      doc == attr_docstr(unwrapped, mro, k)
                  IN  ExtendLoop(c, mro, i + 1,
                          [unwrapped EXCEPT ![c][k].doc = doc,
                                            ![v.owner][k].doc = doc])

\* v.__doc__ = doc, v the object class owner holds under k
SetDocAlongMro(mem, mro, owner, k, doc) ==
    [c \in Class |->
        IF c \in {mro[i] : i \in 1..Len(mro)} /\ mem[c][k].kind # "absent"
        THEN [mem[c] EXCEPT ![k].doc = doc] ELSE mem[c]]

SetDoc(mem, mro, owner, k, doc) == [mem EXCEPT ![owner][k].doc = doc]

\* isinstance(v, FunctionType), or v.__func__ is there
IsFunctionLike(kind) == kind \in {"function", "classmethod"}

\* the loop of extend_all(cls) over dir(cls), from the i-th name on
RECURSIVE ExtendAllLoop(_, _, _, _)
ExtendAllLoop(c, mro, i, mem) ==
    IF i > Len(Names) THEN [err |-> "none", mem |-> mem]
    ELSE LET k == Names[i]
             v == GetAttr(mem, c, k)
         IN  IF v.status = "missing" THEN ExtendAllLoop(c, mro, i + 1, mem)
             ELSE IF v.status = "error"
             THEN [err |-> "AttributeError", mem |-> mem]
             ELSE IF ~IsFunctionLike(mem[v.owner][k].kind)
             THEN ExtendAllLoop(c, mro, i + 1, mem)
             ELSE ExtendAllLoop(c, mro, i + 1,
                      SetDoc(mem, mro, v.owner, k, attr_docstr(mem, mro, k)))

\* the class __doc__ is assigned on Python 3 only
SetsClassDoc(maj) == maj > 2

----------------------------------------------------------------------------
(* States *)

NoOp == [name |-> "init", cls |-> "-", attr |-> "-"]
Op(name, c, attr) == [name |-> name, cls |-> c, attr |-> attr]

NoMembers == [c \in Class |-> [n \in NameSet |-> NoMember]]
NoClsDocs == [c \in Class |-> None]

\* the members present in a hierarchy
Present(mem) == {<<c, n>> \in Class \X NameSet : mem[c][n].kind # "absent"}

----------------------------------------------------------------------------
(* The attribute resolver alone: attr_docstr over every hierarchy whose     *)
(* classes define, or do not, the member ItemName *)

AttrPool ==
    {NoMember, Member("opaque", <<"f">>),
     [kind |-> "data", doc |-> <<"f">>, marked |-> TRUE]}
    \cup {Member("function", d) : d \in Docs \cup {None}}

InitAttr ==
    /\ major = 3
    /\ noneMode = "raise"
    /\ clsdoc = NoClsDocs
    /\ \E f \in [Class -> AttrPool] :
          member = [c \in Class |->
                       [n \in NameSet |-> IF n = ItemName THEN f[c] ELSE NoMember]]
    /\ parents = <<>>
    /\ thing = FuncSource(None)
    /\ op = NoOp
    /\ res = None
    /\ err = "none"

CallAttr(c) ==
    /\ res' = attr_docstr(member, Mro(c), ItemName)
    /\ op' = Op("attr_docstr", c, ItemName)
    /\ err' = "none"
    /\ UNCHANGED <<major, noneMode, clsdoc, member, parents, thing>>

NextAttr == \E c \in Class : CallAttr(c)

SpecAttr == InitAttr /\ [][NextAttr]_vars

----------------------------------------------------------------------------
(* The chain resolver: extends(p1, p2, ...) applied to an item *)

Sources ==
    {TypeSource(c) : c \in Class} \cup {FuncSource(d) : d \in Docs \cup {None}}

SeqsUpTo(S, n) == UNION {[1..k -> S] : k \in 0..n}

ChainPool == {NoMember, Member("function", <<"f">>), Member("opaque", None)}

\* hierarchies in which A and D define, or do not, the member ItemName
ChainMembers ==
    {[c \in Class |->
         [n \in NameSet |-> IF n = ItemName /\ c \in {"A", "D"}
                            THEN f[c] ELSE NoMember]] :
        f \in [{"A", "D"} -> ChainPool]}

InitChain ==
    /\ major \in {2, 3}
    /\ noneMode \in {"raise", "empty"}
    /\ clsdoc \in {cd \in [Class -> {None, <<"b">>}] :
                      cd["B"] = None /\ cd["C"] = None}
    /\ member \in ChainMembers
    /\ parents \in SeqsUpTo(Sources, MaxParents)
    /\ thing \in Sources
    /\ op = NoOp
    /\ res = None
    /\ err = "none"

\* extends_(thing, parents) with thing a type
DecorateType ==
    /\ op.name = "init"
    /\ thing.isType
    /\ clsdoc' =
          IF SetsClassDoc(major)
          THEN [clsdoc EXCEPT ![thing.cls] =
                   cls_docstr_of(Reverse(
                       [i \in 1..Len(parents) |-> SourceDoc(clsdoc, parents[i])]
                       \o <<clsdoc[thing.cls]>>))]
          ELSE clsdoc
    /\ op' = Op("extends", thing.cls, "-")
    /\ res' = clsdoc'[thing.cls]
    /\ err' = "none"
    /\ UNCHANGED <<major, noneMode, member, parents, thing>>

\* extends_(thing, parents) with thing a function
DecorateItem ==
    /\ op.name = "init"
    /\ ~thing.isType
    /\ LET r == ChainLoop(member, clsdoc, noneMode,
                          parents \o <<thing>>, 1, <<>>)
       IN  /\ err' = r.err
           /\ thing' = IF r.err = "none"
                       THEN [thing EXCEPT !.doc = Join(r.docs, Sep)]
                       ELSE thing
           /\ res' = thing'.doc
    /\ op' = Op("extends", "-", ItemName)
    /\ UNCHANGED <<major, noneMode, clsdoc, member, parents>>

NextChain == DecorateType \/ DecorateItem

SpecChain == InitChain /\ [][NextChain]_vars

----------------------------------------------------------------------------
(* Marking and finalization of one type under construction, thing:          *)
(* extend(item) in its body, then extend(cls) or extend_all(cls) on it      *)

\* most members a hierarchy is drawn with
MaxMembers == 2

LifePool(n) ==
    IF n = ItemName
    THEN {NoMember, Member("function", None), Member("function", <<"f">>),
          Member("function", <<"f", SP, "b">>), Member("function", <<SP, "f">>),
          Member("classmethod", <<"f">>)}
    ELSE {NoMember, Member("data", <<"i">>), Member("opaque", None)}

\* the hierarchies of at most n members, each drawn from the pool of its name
Hierarchies(n) ==
    UNION {
        { [c \in Class |->
              [k \in NameSet |-> IF <<c, k>> \in S THEN v[<<c, k>>] ELSE NoMember]] :
            v \in {w \in [S -> UNION {LifePool(k) : k \in NameSet} \ {NoMember}] :
                      \A s \in S : w[s] \in LifePool(s[2])} } :
        S \in {T \in SUBSET (Class \X NameSet) : Cardinality(T) <= n} }

InitLife ==
    /\ major \in {2, 3}
    /\ noneMode = "raise"
    /\ clsdoc \in {[c \in Class |-> d] : d \in {None, <<"f">>}}
    /\ member \in Hierarchies(MaxMembers)
    /\ parents = <<>>
    /\ thing \in {TypeSource(c) : c \in Class}
    /\ op = NoOp
    /\ res = None
    /\ err = "none"

\* extend(item), item no type: the class body binds the Extend to the name
ExtendItem(n) ==
    LET c == thing.cls IN
    /\ member[c][n].kind # "absent"
    /\ ~member[c][n].marked
    /\ IF HasDocAttr(member[c][n].kind)
       THEN /\ member' = [member EXCEPT ![c][n].marked = TRUE]
            /\ err' = "none"
       ELSE /\ member' = member
            /\ err' = "ValueError"
    /\ op' = Op("mark", c, n)
    /\ res' = None
    /\ UNCHANGED <<major, noneMode, clsdoc, parents, thing>>

\* extend(item), item a type
ExtendType ==
    LET c == thing.cls
        r == ExtendLoop(c, Mro(c), 1, member)
    IN  /\ member' = r.mem
        /\ err' = r.err
        /\ clsdoc' = IF r.err = "none" /\ SetsClassDoc(major)
                     THEN [clsdoc EXCEPT ![c] = cls_docstr(clsdoc, Mro(c))]
                     ELSE clsdoc
        /\ op' = Op("extend", c, "-")
        /\ res' = None
        /\ UNCHANGED <<major, noneMode, parents, thing>>

\* extend_all(cls)
ExtendAll ==
    LET c == thing.cls
        r == ExtendAllLoop(c, Mro(c), 1, member)
    IN  /\ member' = r.mem
        /\ err' = r.err
        /\ clsdoc' = IF r.err = "none" /\ SetsClassDoc(major)
                     THEN [clsdoc EXCEPT ![c] = cls_docstr(clsdoc, Mro(c))]
                     ELSE clsdoc
        /\ op' = Op("extend_all", c, "-")
        /\ res' = None
        /\ UNCHANGED <<major, noneMode, parents, thing>>

NextLife ==
    \/ \E n \in NameSet : ExtendItem(n)
    \/ ExtendType
    \/ ExtendAll

SpecLife == InitLife /\ [][NextLife]_vars

----------------------------------------------------------------------------
(* The same operations over every documentation of the classes themselves  *)

TypeDocs == {None, <<>>, <<"f">>, <<"b">>, <<"f", SP, "b">>, <<SP, "f">>}

InitType ==
    /\ major \in {2, 3}
    /\ noneMode = "raise"
    /\ clsdoc \in [Class -> TypeDocs]
    /\ member \in {mem \in Hierarchies(1) :
                      \A s \in Present(mem) : mem[s[1]][s[2]].kind = "data"}
    /\ parents = <<>>
    /\ thing \in {TypeSource(c) : c \in Class}
    /\ op = NoOp
    /\ res = None
    /\ err = "none"

SpecType == InitType /\ [][NextLife]_vars

\* both families of hierarchies together
SpecResolve == (InitLife \/ InitType) /\ [][NextLife]_vars

----------------------------------------------------------------------------
(* What the resolvers are to compute, stated over the positions of a chain *)

Max(S) == CHOOSE x \in S : \A y \in S : x >= y

\* the normalized documentation the i-th class of mro offers for attr,
\* the empty string when it offers none
Offered(mem, mro, attr, i) ==
    LET g == GetAttr(mem, mro[i], attr) IN
    IF g.status # "ok" \/ DocOf(mem, g.owner, attr) = None THEN <<>>
    ELSE unindent(DocOf(mem, g.owner, attr))

OfferedAll(mem, mro, attr) ==
    [i \in 1..Len(mro) |-> Offered(mem, mro, attr, i)]

\* the normalized documentation of the classes of mro themselves
OfferedCls(cd, mro) ==
    [i \in 1..Len(mro) |->
        IF cd[mro[i]] = None THEN <<>> ELSE unindent(cd[mro[i]])]

\* the last position up to i whose block is kept, 0 when there is none: a
\* block is kept when it is not empty and no substring of the block kept
\* last before it
RECURSIVE LastKept(_, _)
LastKept(ds, i) ==
    IF i = 0 THEN 0
    ELSE LET p == LastKept(ds, i - 1) IN
         IF ds[i] # <<>> /\ (p = 0 \/ ~IsSubstr(ds[i], ds[p])) THEN i ELSE p

KeptAt(ds) == {i \in 1..Len(ds) : LastKept(ds, i) = i}

\* the blocks at the positions S, last position first, a blank line between
RECURSIVE JoinDescending(_, _)
JoinDescending(ds, S) ==
    IF S = {} THEN <<>>
    ELSE IF S = {Max(S)} THEN ds[Max(S)]
    ELSE ds[Max(S)] \o Sep \o JoinDescending(ds, S \ {Max(S)})

Foo == <<"f">>
FooBar == <<"f", SP, "b">>
Bar == <<"b">>

IsFunction(m, d) == m.kind = "function" /\ ~m.marked /\ m.doc = d

----------------------------------------------------------------------------
(* C3 *)

\* C3: attr_docstr returns the kept blocks (a block is kept unless it is
\* empty or a substring of the block kept just before it, scanning the
\* most specific class first), base first and most derived last, joined by a
\* blank line; it returns None exactly when no ancestor offers documentation;
\* and when the override's text contains the base's, only the override's text
\* is returned.
C3_AttrDocstr ==
    op.name = "attr_docstr" =>
        LET mro == Mro(op.cls)
            ds == OfferedAll(member, mro, op.attr)
        IN  /\ res = IF KeptAt(ds) = {} THEN None
                     ELSE JoinDescending(ds, KeptAt(ds))
            /\ (res = None) <=> (\A i \in 1..Len(mro) : ds[i] = <<>>)
            /\ (Len(mro) = 2 /\ ds[1] # <<>> /\ IsSubstr(ds[2], ds[1]))
                  => res = ds[1]

\* attr_docstr(B.mro, "m") with B.m documented "b" and A.m documented "f"
C3_Witness ==
    /\ op = Op("attr_docstr", "B", ItemName)
    /\ IsFunction(member["B"][ItemName], Bar)
    /\ IsFunction(member["A"][ItemName], Foo)
    /\ res = Foo \o Sep \o Bar

----------------------------------------------------------------------------
(* C7 *)

\* C7 as stated: the class scanned first documents "foo", the next class of
\* the chain documents "foo bar", and only "foo bar" is returned.
C7_AsStated ==
    ( /\ op = Op("attr_docstr", "B", ItemName)
      /\ IsFunction(member["B"][ItemName], Foo)
      /\ IsFunction(member["A"][ItemName], FooBar) )
    => res = FooBar

\* C7 amended: when the more specific class, scanned first, documents
\* "foo bar" and the next class of the most-specific-first ancestor list
\* documents "foo", only "foo bar" is returned; in the order stated both
\* blocks are kept.
C7_Suppression ==
    /\ ( /\ op = Op("attr_docstr", "B", ItemName)
         /\ IsFunction(member["B"][ItemName], FooBar)
         /\ IsFunction(member["A"][ItemName], Foo) )
       => res = FooBar
    /\ ( /\ op = Op("attr_docstr", "B", ItemName)
         /\ IsFunction(member["B"][ItemName], Foo)
         /\ IsFunction(member["A"][ItemName], FooBar) )
       => res = FooBar \o Sep \o Foo

C7_Witness ==
    /\ op = Op("attr_docstr", "B", ItemName)
    /\ IsFunction(member["B"][ItemName], FooBar)
    /\ IsFunction(member["A"][ItemName], Foo)
    /\ res = FooBar

----------------------------------------------------------------------------
(* C9 *)

\* the classes of mro that define attr themselves
Definers(mem, mro, attr) ==
    {mro[i] : i \in {j \in 1..Len(mro) : mem[mro[j]][attr].kind # "absent"}}

\* C9: every block of the result is the documentation of a distinct ancestor
\* that defines the member: the blocks map one-to-one into the defining
\* classes, so no defining class's documentation appears as two blocks.
C9_DistinctDefiners ==
    op.name = "attr_docstr" =>
        LET mro == Mro(op.cls)
            blocks == AttrLoop(member, mro, op.attr, 1, <<>>, None)
            defs == Definers(member, mro, op.attr)
        IN  /\ res = AttrResult(blocks)
            /\ \E f \in [1..Len(blocks) -> defs] :
                  /\ \A i, j \in 1..Len(blocks) : f[i] = f[j] => i = j
                  /\ \A i \in 1..Len(blocks) :
                        /\ DocOf(member, f[i], op.attr) # None
                        /\ blocks[i] = unindent(DocOf(member, f[i], op.attr))

----------------------------------------------------------------------------
(* C1 *)

\* C1: when extend(cls) returns, every member of cls that was marked is
\* resolved: the class holds the original member, no Extend, and the
\* member's documentation is attr_docstr(mro, name).
C1_MarkedResolved ==
    [][ (op'.name = "extend" /\ err' = "none") =>
            \A n \in NameSet :
                member[op'.cls][n].marked =>
                    /\ ~member'[op'.cls][n].marked
                    /\ member'[op'.cls][n].doc
                          = attr_docstr(member', Mro(op'.cls), n) ]_vars

----------------------------------------------------------------------------
(* C5 *)

\* C5: extend(item) on a plain data attribute raises ValueError and creates
\* no marker; a marker is created only for items with a __doc__ attribute.
C5_DataRejected ==
    op.name = "mark" =>
        /\ member[op.cls][op.attr].kind = "data" =>
              (err = "ValueError" /\ ~member[op.cls][op.attr].marked)
        /\ member[op.cls][op.attr].marked =>
              member[op.cls][op.attr].kind # "opaque"

----------------------------------------------------------------------------
(* C6 *)

----------------------------------------------------------------------------
(* C10 *)

\* C10 as stated: extend_all(T) changes documentation only on T and on the
\* function-like members T defines itself.
C10_AsStated ==
    [][ op'.name = "extend_all" =>
            /\ \A c \in Class \ {op'.cls} : clsdoc'[c] = clsdoc[c]
            /\ \A c \in Class, n \in NameSet :
                  (c # op'.cls \/ member[c][n].kind \notin {"function", "classmethod"})
                      => member'[c][n] = member[c][n] ]_vars

\* C10 amended: extend_all(T) changes documentation only on T and on the
\* function-like members that getattr(T, name) finds for the names of
\* dir(T), those inherited from an ancestor included (the ancestor's own
\* function object is changed); the documentation of every other class, of
\* every member shadowed for T or outside its mro, and of every member that
\* is no function is as before, and so is every marker.
C10_Frame ==
    [][ op'.name = "extend_all" =>
            /\ \A c \in Class \ {op'.cls} : clsdoc'[c] = clsdoc[c]
            /\ \A c \in Class, n \in NameSet :
                  \/ member'[c][n] = member[c][n]
                  \/ /\ Owner(member, op'.cls, n) = c
                     /\ member[c][n].kind \in {"function", "classmethod"}
                     /\ member'[c][n] = [member[c][n] EXCEPT !.doc = member'[c][n].doc] ]_vars

\* extend_all(D), D without a member m of its own, has rewritten B.m
C10_Witness ==
    /\ op = Op("extend_all", "D", "-")
    /\ err = "none"
    /\ member["D"][ItemName].kind = "absent"
    /\ IsFunction(member["A"][ItemName], FooBar)
    /\ IsFunction(member["B"][ItemName], FooBar \o Sep \o Foo)

----------------------------------------------------------------------------
(* C8 *)

\* what the documentation of the class heading mro is to become
ExpectedClsDoc(cd, mro) ==
    JoinDescending(OfferedCls(cd, mro), KeptAt(OfferedCls(cd, mro)))

\* C8 as stated: after extend(cls) or extend_all(cls) the documentation of
\* cls is the deduplicated chain of its ancestors' documentation, base first.
C8_AsStated ==
    [][ (op'.name \in {"extend", "extend_all"} /\ err' = "none") =>
            clsdoc'[op'.cls] = ExpectedClsDoc(clsdoc, Mro(op'.cls)) ]_vars

\* C8 amended: on Python 3 (sys.version_info.major > 2), after extend(cls)
\* or extend_all(cls) has returned, the documentation of cls is the
\* deduplicated chain of its ancestors' documentation (a block dropped only
\* when it is empty or a substring of the block kept just before it), base
\* first and most derived last, joined by a blank line; "f" for the base and
\* "b" for the subclass give "f\n\nb".  On Python 2 the documentation of
\* cls is left as it was.
C8_ClassDoc ==
    [][ (op'.name \in {"extend", "extend_all"} /\ err' = "none") =>
            /\ major > 2 =>
                  clsdoc'[op'.cls] = ExpectedClsDoc(clsdoc, Mro(op'.cls))
            /\ (major > 2 /\ op'.cls = "B" /\ clsdoc["A"] = Foo /\ clsdoc["B"] = Bar)
                  => clsdoc'["B"] = Foo \o Sep \o Bar
            /\ major <= 2 => clsdoc' = clsdoc ]_vars

\* extend(B) or extend_all(B) on Python 3 has joined "f" of A and "b" of B
C8_Witness ==
    /\ op.name \in {"extend", "extend_all"}
    /\ op.cls = "B"
    /\ err = "none"
    /\ major = 3
    /\ clsdoc["A"] = Foo
    /\ clsdoc["B"] = Foo \o Sep \o Bar

----------------------------------------------------------------------------
(* C2 and C4 *)

\* the candidates of the chain, parents first, then the decorated item
Cands == parents \o <<thing>>

DocsOfCands(cs) == [i \in 1..Len(cs) |-> CandDoc(member, clsdoc, cs[i])]

\* the rule as C2 states it: a text is appended when nothing is kept yet or
\* when it is no substring of the block kept last
RECURSIVE StatedChain(_, _, _)
StatedChain(ds, i, kept) ==
    IF i > Len(ds) THEN kept
    ELSE IF kept = <<>> \/ ~IsSubstr(ds[i], kept[Len(kept)])
    THEN StatedChain(ds, i + 1, Append(kept, ds[i]))
    ELSE StatedChain(ds, i + 1, kept)

\* C2: the decorated item's documentation is the blocks kept by that rule,
\* scanning the parents and then the item, joined by a blank line (here for
\* sources that all have a documentation text).
C2_ChainRule ==
    [][ ( /\ op'.name = "extends"
          /\ ~thing.isType
          /\ err' = "none"
          /\ \A i \in 1..Len(Cands) :
                /\ ~DocsOfCands(Cands)[i].raises
                /\ DocsOfCands(Cands)[i].doc \notin {None, <<>>} )
        => thing'.doc =
              Join(StatedChain([i \in 1..Len(Cands) |->
                                   unindent(DocsOfCands(Cands)[i].doc)],
                               1, <<>>), Sep) ]_vars

\* the sources that have documentation
Documented(cs) ==
    SelectSeq(cs, LAMBDA c : CandDoc(member, clsdoc, c).doc # None)

\* C4: the chain resolver never fails; a source without documentation is
\* skipped, so that the result is the string the documented sources give.
C4_NeverFails ==
    [][ ( /\ op'.name = "extends"
          /\ ~thing.isType
          /\ \A i \in 1..Len(Cands) : ~DocsOfCands(Cands)[i].raises )
        => /\ err' = "none"
           /\ thing'.doc # None
           /\ thing'.doc =
                 Join(ChainLoop(member, clsdoc, noneMode,
                                Documented(Cands), 1, <<>>).docs, Sep) ]_vars

====
